---- MODULE Spec2Model ----
(***************************************************************************)
(* MLB deferred contract calculator: the present-value engine and the      *)
(* three formulations of calculateContract found in the source             *)
(* (src/utils/calculations.ts, src/unnamed/part_000), and the form state   *)
(* of the App component (src/App.tsx).                                     *)
(*                                                                         *)
(* A JavaScript number is modelled as an exact fraction <<n, d>> in lowest *)
(* terms with d > 0, extended with the three non-finite values of IEEE     *)
(* arithmetic: <<1, 0>> is Infinity, <<-1, 0>> is -Infinity and <<0, 0>>   *)
(* is NaN.  Fractions too large for the integers of the model checker are  *)
(* held digit by digit (see the long form below).  Rounding of finite      *)
(* results and the sign of zero are not modelled.                          *)
(***************************************************************************)
EXTENDS Integers, Sequences, FiniteSets, TLC

VARIABLES data, variant, result, evaluations, formData, errors, results, edits,
          call, pv

vars ==
  <<data, variant, result, evaluations, formData, errors, results, edits, call, pv>>

calcVars == <<data, variant, result, evaluations>>

appVars == <<formData, errors, results, edits>>

pvVars == <<call, pv>>

NULL == [null |-> TRUE]

-----------------------------------------------------------------------------
(* Bounds of the model. *)

MaxYears == 3

MaxStart == 2

MaxPayout == 3

MaxEdits == 3

MaxDelay == 3

-----------------------------------------------------------------------------
(* JavaScript number arithmetic. *)

Abs(a) == IF a < 0 THEN -a ELSE a

Sign(a) == IF a < 0 THEN -1 ELSE IF a > 0 THEN 1 ELSE 0

RECURSIVE GCD(_, _)
GCD(a, b) == IF b = 0 THEN a ELSE GCD(b, a % b)

NaN == <<0, 0>>

Infinity == <<1, 0>>

Norm(n, d) ==
  IF d = 0 THEN <<Sign(n), 0>>
  ELSE LET g == GCD(Abs(n), Abs(d))
           s == Sign(d)
       IN  <<(s * n) \div g, (s * d) \div g>>

N(i) == <<i, 1>>

Zero == N(0)

One == N(1)

(* A finite number whose numerator or denominator exceeds the integers of  *)
(* the model checker is held in long form <<s, m, e>>: s is its sign, m    *)
(* the digits of its numerator in base 10000, least significant first,     *)
(* and e the exponents of the primes of its denominator.  The denominators *)
(* of the calculator are products of these primes (10443 = 3 * 59 * 59,    *)
(* 209 = 11 * 19); the value of a number with another denominator is left  *)
(* undefined in long form.  A number is in long form only if it has no     *)
(* short form, so equal numbers are equal tuples.                          *)

Primes == <<2, 3, 5, 7, 11, 19, 41, 59>>

(* The tuple of the values of f, one component per prime. *)
Vec(f) == <<f[1], f[2], f[3], f[4], f[5], f[6], f[7], f[8]>>

IsLong(x) == Len(x) = 3

(* a * b stays within lim *)
SafeProd(a, b, lim) == a = 0 \/ b = 0 \/ Abs(a) <= lim \div Abs(b)

Rest(m) == IF m = <<>> THEN <<>> ELSE Tail(m)

Digit(m) == IF m = <<>> THEN 0 ELSE m[1]

RECURSIVE Trim(_)
Trim(m) ==
  IF m = <<>> THEN <<>>
  ELSE IF m[Len(m)] = 0 THEN Trim(SubSeq(m, 1, Len(m) - 1))
  ELSE m

RECURSIVE MagOfInt(_)
MagOfInt(n) == IF n = 0 THEN <<>> ELSE <<n % 10000>> \o MagOfInt(n \div 10000)

RECURSIVE MagToInt(_)
MagToInt(m) == IF m = <<>> THEN 0 ELSE m[1] + 10000 * MagToInt(Tail(m))

MagFits(m) ==
  \/ Len(m) <= 2
  \/ Len(m) = 3 /\ (m[3] < 21 \/ (m[3] = 21 /\ m[2] * 10000 + m[1] <= 47483647))

RECURSIVE MagAdd(_, _, _)
MagAdd(a, b, carry) ==
  IF a = <<>> /\ b = <<>> THEN MagOfInt(carry)
  ELSE LET t == Digit(a) + Digit(b) + carry
       IN  <<t % 10000>> \o MagAdd(Rest(a), Rest(b), t \div 10000)

(* a - b - borrow for a >= b + borrow *)
RECURSIVE MagSub(_, _, _)
MagSub(a, b, borrow) ==
  IF a = <<>> THEN <<>>
  ELSE LET t == Digit(a) - Digit(b) - borrow
       IN  IF t < 0 THEN <<t + 10000>> \o MagSub(Rest(a), Rest(b), 1)
           ELSE <<t>> \o MagSub(Rest(a), Rest(b), 0)

RECURSIVE MagLessFrom(_, _, _)
MagLessFrom(a, b, k) ==
  IF k = 0 THEN FALSE
  ELSE IF a[k] # b[k] THEN a[k] < b[k]
  ELSE MagLessFrom(a, b, k - 1)

MagLess(a, b) == IF Len(a) # Len(b) THEN Len(a) < Len(b) ELSE MagLessFrom(a, b, Len(a))

(* a * k + carry for 0 <= k <= 100000 *)
RECURSIVE MagMulSmall(_, _, _)
MagMulSmall(a, k, carry) ==
  IF a = <<>> THEN MagOfInt(carry)
  ELSE LET t == a[1] * k + carry
       IN  <<t % 10000>> \o MagMulSmall(Tail(a), k, t \div 10000)

(* a * b, one digit of b at a time *)
RECURSIVE MagMulAll(_, _)
MagMulAll(a, b) ==
  IF b = <<>> THEN <<>>
  ELSE MagAdd(MagMulSmall(a, b[1], 0), <<0>> \o MagMulAll(a, Tail(b)), 0)

MagMul(a, b) == IF Len(a) < Len(b) THEN Trim(MagMulAll(b, a)) ELSE Trim(MagMulAll(a, b))

(* <<a \div k, a % k>> for 0 < k <= 100000, from the most significant      *)
(* digit; q holds the quotient digits found so far.                        *)
RECURSIVE MagDivFrom(_, _, _, _)
MagDivFrom(a, k, rem, q) ==
  IF Len(q) = Len(a) THEN <<Trim(q), rem>>
  ELSE LET cur == rem * 10000 + a[Len(a) - Len(q)]
       IN  MagDivFrom(a, k, cur % k, <<cur \div k>> \o q)

MagDivSmall(a, k) == MagDivFrom(a, k, 0, <<>>)

(* <<p^j, j>> for the largest j <= c with p^j <= 100000 *)
RECURSIVE PowChunk(_, _, _, _)
PowChunk(p, c, pj, j) ==
  IF j < c /\ pj * p <= 100000 THEN PowChunk(p, c, pj * p, j + 1) ELSE <<pj, j>>

(* a * p^c *)
RECURSIVE MagMulPow(_, _, _)
MagMulPow(a, p, c) ==
  IF a = <<>> \/ c = 0 THEN a
  ELSE LET ch == PowChunk(p, c, 1, 0)
       IN  MagMulPow(MagMulSmall(a, ch[1], 0), p, c - ch[2])

(* a \div p^c, for p^c a divisor of a *)
RECURSIVE MagDivPow(_, _, _)
MagDivPow(a, p, c) ==
  IF a = <<>> \/ c = 0 THEN a
  ELSE LET ch == PowChunk(p, c, 1, 0)
       IN  MagDivPow(MagDivSmall(a, ch[1])[1], p, c - ch[2])

(* a * the product of Primes[i]^e[i] for i <= k *)
RECURSIVE MagScale(_, _, _)
MagScale(a, e, k) ==
  IF a = <<>> \/ k = 0 THEN a ELSE MagScale(MagMulPow(a, Primes[k], e[k]), e, k - 1)

(* a \div the product of Primes[i]^c[i] for i <= k *)
RECURSIVE MagStrip(_, _, _)
MagStrip(a, c, k) ==
  IF a = <<>> \/ k = 0 THEN a ELSE MagStrip(MagDivPow(a, Primes[k], c[k]), c, k - 1)

(* How often p divides a # 0, counted up to max. *)
RECURSIVE MagCount(_, _, _)
MagCount(a, p, max) ==
  IF max = 0 THEN 0
  ELSE LET qr == MagDivSmall(a, p)
       IN  IF qr[2] # 0 THEN 0 ELSE 1 + MagCount(qr[1], p, max - 1)

RECURSIVE IntCount(_, _)
IntCount(n, p) == IF n % p # 0 THEN 0 ELSE 1 + IntCount(n \div p, p)

(* The product of Primes[i]^e[i] for i <= k, or 0 if it is not an integer  *)
(* of the model checker.                                                   *)
(* r times the value of m, or 0 if it is not an integer of the model       *)
(* checker.                                                                *)
TimesMag(r, m) ==
  IF r = 0 \/ ~MagFits(m) \/ ~SafeProd(r, MagToInt(m), 2147483647) THEN 0
  ELSE r * MagToInt(m)

RECURSIVE ExpsToInt(_, _)
ExpsToInt(e, k) ==
  IF k = 0 THEN 1
  ELSE TimesMag(ExpsToInt(e, k - 1), MagMulPow(<<1>>, Primes[k], e[k]))

(* The exponents of the primes of a short denominator d > 0. *)
Exps(d) ==
  LET e == Vec([i \in 1 .. Len(Primes) |-> IntCount(d, Primes[i])])
  IN  CHOOSE f \in {e} : ExpsToInt(f, Len(Primes)) = d

(* The exponents of the primes of a # 0, a product of these primes. *)
MagExps(a) ==
  LET e == Vec([i \in 1 .. Len(Primes) |-> MagCount(a, Primes[i], 1000)])
  IN  CHOOSE f \in {e} : MagScale(<<1>>, f, Len(Primes)) = a

(* The long form of a finite number. *)
Long(x) ==
  IF IsLong(x) THEN x
  ELSE <<IF x[1] < 0 THEN -1 ELSE 1, MagOfInt(Abs(x[1])), Exps(x[2])>>

MaxExps(e, f) == Vec([i \in 1 .. Len(Primes) |-> IF e[i] < f[i] THEN f[i] ELSE e[i]])

SubExps(e, f) == Vec([i \in 1 .. Len(Primes) |-> e[i] - f[i]])

AddExps(e, f) == Vec([i \in 1 .. Len(Primes) |-> e[i] + f[i]])

(* How often each prime of the denominator divides the numerator m # 0. *)
Counts(m, e) ==
  Vec([i \in 1 .. Len(Primes) |-> IF e[i] = 0 THEN 0 ELSE MagCount(m, Primes[i], e[i])])

(* The number s * n / d, d being the denominator of exponents f or 0 if    *)
(* that is not an integer of the model checker: in short form if it has    *)
(* one.                                                                    *)
Shorten(s, n, f, d) ==
  IF MagFits(n) /\ d # 0 THEN <<s * MagToInt(n), d>> ELSE <<s, n, f>>

(* s * m / denominator(e) with the common factors c taken out *)
ReduceBy(s, m, e, c) ==
  Shorten(s, MagStrip(m, c, Len(Primes)), SubExps(e, c),
          ExpsToInt(SubExps(e, c), Len(Primes)))

(* The number s * m / denominator(e) in lowest terms, in short form if it  *)
(* has one.                                                                *)
Reduce(s, m, e) == IF m = <<>> THEN Zero ELSE ReduceBy(s, m, e, Counts(m, e))

(* |a - b| *)
MagDiff(a, b) ==
  IF MagLess(a, b) THEN Trim(MagSub(b, a, 0)) ELSE Trim(MagSub(a, b, 0))

(* s * a / denominator(e) + t * b / denominator(e) *)
LongSum(s, a, t, b, e) ==
  Reduce(IF s = t \/ MagLess(b, a) THEN s ELSE t,
         IF s = t THEN MagAdd(a, b, 0) ELSE MagDiff(a, b),
         e)

(* x + y over the common denominator of exponents e *)
LongAddOver(x, y, e) ==
  LongSum(x[1], MagScale(x[2], SubExps(e, x[3]), Len(Primes)),
          y[1], MagScale(y[2], SubExps(e, y[3]), Len(Primes)), e)

LongAdd(x, y) == LongAddOver(x, y, MaxExps(x[3], y[3]))

LongMul(x, y) == Reduce(x[1] * y[1], MagMul(x[2], y[2]), AddExps(x[3], y[3]))

IsNaN(x) == x = NaN

IsInf(x) == ~IsLong(x) /\ x[2] = 0 /\ x[1] # 0

IsFinite(x) == IsLong(x) \/ x[2] # 0

Neg(x) == IF IsLong(x) THEN <<-x[1], x[2], x[3]>> ELSE <<-x[1], x[2]>>

Add(x, y) ==
  IF IsNaN(x) \/ IsNaN(y) THEN NaN
  ELSE IF IsInf(x) /\ IsInf(y) THEN (IF x = y THEN x ELSE NaN)
  ELSE IF IsInf(x) THEN x
  ELSE IF IsInf(y) THEN y
  ELSE LET g == GCD(x[2], y[2])
       IN  IF /\ ~IsLong(x)
              /\ ~IsLong(y)
              /\ SafeProd(x[1], y[2] \div g, 1073741823)
              /\ SafeProd(y[1], x[2] \div g, 1073741823)
              /\ SafeProd(x[2] \div g, y[2], 2147483647)
           THEN Norm(x[1] * (y[2] \div g) + y[1] * (x[2] \div g), (x[2] \div g) * y[2])
           ELSE LongAdd(Long(x), Long(y))

Sub(x, y) == Add(x, Neg(y))

Mul(x, y) ==
  IF IsNaN(x) \/ IsNaN(y) THEN NaN
  ELSE IF IsInf(x) \/ IsInf(y)
       THEN <<Sign(x[1]) * Sign(y[1]), 0>>
  ELSE IF x = Zero \/ y = Zero THEN Zero
  ELSE LET g1 == GCD(Abs(x[1]), y[2])
           g2 == GCD(Abs(y[1]), x[2])
       IN  IF /\ ~IsLong(x)
              /\ ~IsLong(y)
              /\ SafeProd(x[1] \div g1, y[1] \div g2, 2147483647)
              /\ SafeProd(x[2] \div g2, y[2] \div g1, 2147483647)
           THEN <<(x[1] \div g1) * (y[1] \div g2), (x[2] \div g2) * (y[2] \div g1)>>
           ELSE LongMul(Long(x), Long(y))

(* 1 / y for a finite y # 0 *)
Reciprocal(y) ==
  IF IsLong(y)
  THEN <<y[1], MagScale(<<1>>, y[3], Len(Primes)), MagExps(y[2])>>
  ELSE Norm(y[2], y[1])

Div(x, y) ==
  IF IsNaN(x) \/ IsNaN(y) THEN NaN
  ELSE IF IsInf(y) THEN (IF IsInf(x) THEN NaN ELSE Zero)
  ELSE IF y = Zero THEN <<Sign(x[1]), 0>>
  ELSE Mul(x, Reciprocal(y))

(* a/b < c/d for b, d > 0, by comparing the integer parts and then the    *)
(* reciprocals of the fractional parts, so that no product is formed.     *)
RECURSIVE FracLess(_, _, _, _)
FracLess(a, b, c, d) ==
  IF a \div b # c \div d THEN a \div b < c \div d
  ELSE IF c % d = 0 THEN FALSE
  ELSE IF a % b = 0 THEN TRUE
  ELSE FracLess(d, c % d, b, a % b)

Less(x, y) ==
  /\ ~IsNaN(x)
  /\ ~IsNaN(y)
  /\ x # y
  /\ IF IsInf(x) THEN x[1] < 0
     ELSE IF IsInf(y) THEN y[1] > 0
     ELSE IF IsLong(x) \/ IsLong(y) THEN Sub(x, y)[1] < 0
     ELSE FracLess(x[1], x[2], y[1], y[2])

Leq(x, y) == ~IsNaN(x) /\ ~IsNaN(y) /\ (x = y \/ Less(x, y))

MathMax(x, y) == IF IsNaN(x) \/ IsNaN(y) THEN NaN ELSE IF Less(x, y) THEN y ELSE x


RECURSIVE MathPow(_, _)
MathPow(b, n) ==
  IF n = 0 THEN One
  ELSE IF n < 0 THEN Div(One, MathPow(b, -n))
  ELSE Mul(b, MathPow(b, n - 1))

(* The integer a whole-valued number holds, used for loop counters. *)
ToInt(x) == x[1] \div x[2]

-----------------------------------------------------------------------------
(* calculatePresentValue: PV = FV / (1 + rate/100)^years, the delay being a *)
(* whole number of years.                                                   *)

(* Mutant: the amount is compounded forward instead of discounted back. *)
calculateFutureValue(futureValue, years, rate) ==
  Mul(futureValue, MathPow(Add(One, Div(rate, N(100))), years))

(* Mutant: the amount is not discounted. *)
calculatePresentValueUndiscounted(futureValue, years, rate) == futureValue

(* Mutant: the rate is read as a fraction instead of a percentage. *)
calculatePresentValueOfFraction(futureValue, years, rate) ==
  Div(futureValue, MathPow(Add(One, rate), years))

calculatePresentValue(futureValue, years, rate) ==
  Div(futureValue, MathPow(Add(One, Div(rate, N(100))), years))

(* The arguments of one call of calculatePresentValue. *)
PVCall(futureValue, years, rate) ==
  [futureValue |-> futureValue, years |-> years, rate |-> rate]

NoCall == PVCall(Zero, 0, Zero)

-----------------------------------------------------------------------------
(* ContractData: the six numeric fields, each a JavaScript number. *)

Fields == {"totalValue", "years", "deferralAmount", "deferralStartYear",
           "payoutDuration", "interestRate"}

ContractData(tv, y, da, dsy, pd, r) ==
  [totalValue |-> tv, years |-> y, deferralAmount |-> da,
   deferralStartYear |-> dsy, payoutDuration |-> pd, interestRate |-> r]

(* Per-year earning-period quantities, the same in every formulation. *)

yearlySalaryTotal(d) == Div(d.totalValue, d.years)

(* Mutant: the per-year deferral is taken from the total value. *)
yearlyDeferralOfTotal(d) == Div(d.totalValue, d.years)

yearlyDeferral(d) == Div(d.deferralAmount, d.years)

yearlyCashSalary(d) == Sub(yearlySalaryTotal(d), yearlyDeferral(d))

nominalAAV(d) == Div(d.totalValue, d.years)

(* The discount period of installment p of the deferred money earned in    *)
(* earning year e: payoutYear - earningYear.                               *)
(* Mutant: every installment is discounted back to the first year. *)
timeDiffFromStart(d, e, p) == ToInt(d.years) + ToInt(d.deferralStartYear) + p - 1

(* Mutant: the delay is counted from the end of the contract. *)
timeDiffFromContractEnd(d, e, p) == ToInt(d.deferralStartYear) + p - e

timeDiff(d, e, p) == ToInt(d.years) + ToInt(d.deferralStartYear) + p - e

(* The timeline: its length, the payout window and the cash received. *)

(* Mutant: the timeline ends with the contract. *)
totalTimelineOfContract(d) == MathMax(d.years, d.years)

(* Mutant: the timeline stops at the last installment. *)
totalTimelineTight(d) ==
  MathMax(d.years,
          Sub(Add(Add(d.years, d.deferralStartYear), d.payoutDuration), One))

totalTimeline(d) ==
  MathMax(d.years, Add(Add(d.years, d.deferralStartYear), d.payoutDuration))

(* Mutant: the installment is the deferred money per contract year. *)
yearlyDeferredPayoutCheckPerYear(d) == Div(d.deferralAmount, d.years)

yearlyDeferredPayoutCheck(d) == Div(d.deferralAmount, d.payoutDuration)

(* Mutant: the payout window starts the year after years + deferralStartYear. *)
payoutStartIndexAfter(d) == Add(Add(d.years, d.deferralStartYear), One)

payoutStartIndex(d) == Add(d.years, d.deferralStartYear)

(* Mutant: the payout window is one year too long. *)
payoutEndIndexInclusive(d) == Add(payoutStartIndex(d), d.payoutDuration)

payoutEndIndex(d) == Sub(Add(payoutStartIndex(d), d.payoutDuration), One)

payoutReceived(d, i) ==
  LET salary == IF Leq(N(i), d.years) THEN Add(Zero, yearlyCashSalary(d)) ELSE Zero
  IN  IF Leq(payoutStartIndex(d), N(i)) /\ Leq(N(i), payoutEndIndex(d))
      THEN Add(salary, yearlyDeferredPayoutCheck(d))
      ELSE salary

(* A string is a sequence of characters; `...${x}` appends the decimal      *)
(* digits of the whole number x.                                           *)
DigitChar(k) == <<"0", "1", "2", "3", "4", "5", "6", "7", "8", "9">>[k + 1]

RECURSIVE DecimalDigits(_)
DecimalDigits(n) ==
  IF n < 10 THEN <<DigitChar(n)>>
  ELSE Append(DecimalDigits(n \div 10), DigitChar(n % 10))

NumberToString(x) ==
  IF x[1] < 0 THEN <<"-">> \o DecimalDigits(ToInt(Neg(x))) ELSE DecimalDigits(ToInt(x))

(* Mutant: the deferred label carries the timeline year. *)
labelOfTimelineYear(d, i) ==
  IF Leq(N(i), d.years)
  THEN <<"Y", "e", "a", "r", " ">> \o NumberToString(N(i))
  ELSE <<"D", "e", "f", "e", "r", "r", "e", "d", " ">> \o NumberToString(N(i))

label(d, i) ==
  IF Leq(N(i), d.years)
  THEN <<"Y", "e", "a", "r", " ">> \o NumberToString(N(i))
  ELSE <<"D", "e", "f", "e", "r", "r", "e", "d", " ">>
         \o NumberToString(Sub(N(i), d.years))

(* Mutant: the discount is left as a fraction, not a percentage. *)
effectiveDiscountAsFraction(nominal, cbt) == Div(Sub(nominal, cbt), nominal)

effectiveDiscount(nominal, cbt) == Mul(Div(Sub(nominal, cbt), nominal), N(100))

-----------------------------------------------------------------------------
(* calculateContract, averaged-AAV formulation with the escrow stream      *)
(* (the first definition of src/utils/calculations.ts).                    *)

installmentPerPayoutYear(d) == Div(yearlyDeferral(d), d.payoutDuration)

(* The inner loop: the installments p = 0 .. payoutDuration - 1 of the     *)
(* deferred money of one earning year, each added to the total at its      *)
(* present value.  A total that is NaN stays NaN.                          *)
RECURSIVE PayoutLoop(_, _, _, _, _)
PayoutLoop(d, rate, earningYear, p, total) ==
  IF IsNaN(total) \/ ~Less(N(p), d.payoutDuration) THEN total
  ELSE PayoutLoop(d, rate, earningYear, p + 1,
         Add(total, calculatePresentValue(installmentPerPayoutYear(d),
                                          timeDiff(d, earningYear, p), rate)))

(* The outer loop over the earning years 1 .. years. *)
RECURSIVE DeferredPVLoop(_, _, _, _)
DeferredPVLoop(d, rate, earningYear, total) ==
  IF IsNaN(total) \/ ~Leq(N(earningYear), d.years) THEN total
  ELSE DeferredPVLoop(d, rate, earningYear + 1,
         PayoutLoop(d, rate, earningYear, 0, total))

totalDeferredPV(d) == DeferredPVLoop(d, d.interestRate, 1, Zero)

ESCROW_DISCOUNT_RATE == <<5, 1>>

(* Mutant: the escrow stream is discounted at the input rate. *)
totalEscrowPVAtInputRate(d) == DeferredPVLoop(d, d.interestRate, 1, Zero)

(* escrowRequirement of the result: the same loop at the fixed escrow rate. *)
totalEscrowPV(d) == DeferredPVLoop(d, ESCROW_DISCOUNT_RATE, 1, Zero)

totalCashValue(d) == Mul(yearlyCashSalary(d), d.years)

totalPresentValue(d) == Add(totalCashValue(d), totalDeferredPV(d))

(* Mutant: the average is taken over the payout years. *)
cbtAAVOverPayout(d) == Div(totalPresentValue(d), d.payoutDuration)

cbtAAV(d) == Div(totalPresentValue(d), d.years)

(* One record of the averaged formulations, without the running total;   *)
(* cbt is the cbtAAV computed before the timeline loop.                   *)
(* Mutant: the earning-period guards of the record are missing. *)
YearlyDataUnguarded(d, i, cbt) ==
  [year |-> i,
   label |-> label(d, i),
   cashPay |-> yearlyCashSalary(d),
   deferredEarned |-> yearlyDeferral(d),
   cbtValue |-> cbt,
   payoutReceived |-> payoutReceived(d, i)]

YearlyData(d, i, cbt) ==
  [year |-> i,
   label |-> label(d, i),
   cashPay |-> IF Leq(N(i), d.years) THEN yearlyCashSalary(d) ELSE Zero,
   deferredEarned |-> IF Leq(N(i), d.years) THEN yearlyDeferral(d) ELSE Zero,
   cbtValue |-> IF Leq(N(i), d.years) THEN cbt ELSE Zero,
   payoutReceived |-> payoutReceived(d, i)]

(* Mutant: the running total is not carried from year to year. *)
RECURSIVE BreakdownLoopNoCarry(_, _, _, _, _)
BreakdownLoopNoCarry(d, cbt, i, runningTotal, yearlyBreakdown) ==
  IF ~Leq(N(i), totalTimeline(d)) THEN yearlyBreakdown
  ELSE LET row == YearlyData(d, i, cbt)
       IN  BreakdownLoopNoCarry(d, cbt, i + 1, runningTotal,
             Append(yearlyBreakdown,
               [year |-> row.year,
                label |-> row.label,
                cashPay |-> row.cashPay,
                deferredEarned |-> row.deferredEarned,
                cbtValue |-> row.cbtValue,
                payoutReceived |-> row.payoutReceived,
                cumulativeReceived |-> Add(runningTotal, row.payoutReceived)]))

(* The timeline loop: one record pushed per year i = 1 .. totalTimeline,   *)
(* with the running total of the cash received.                            *)
RECURSIVE BreakdownLoop(_, _, _, _, _)
BreakdownLoop(d, cbt, i, runningTotal, yearlyBreakdown) ==
  IF ~Leq(N(i), totalTimeline(d)) THEN yearlyBreakdown
  ELSE LET row == YearlyData(d, i, cbt)
           total == Add(runningTotal, row.payoutReceived)
       IN  BreakdownLoop(d, cbt, i + 1, total,
             Append(yearlyBreakdown,
               [year |-> row.year,
                label |-> row.label,
                cashPay |-> row.cashPay,
                deferredEarned |-> row.deferredEarned,
                cbtValue |-> row.cbtValue,
                payoutReceived |-> row.payoutReceived,
                cumulativeReceived |-> total]))

calculateContract(d) ==
  LET tpv == totalPresentValue(d)
      cbt == cbtAAV(d)
  IN  [nominalAAV |-> nominalAAV(d),
       cbtAAV |-> cbt,
       totalPresentValue |-> tpv,
       yearlyBreakdown |-> BreakdownLoop(d, cbt, 1, Zero, <<>>),
       effectiveDiscount |-> effectiveDiscount(nominalAAV(d), cbt),
       escrowRequirement |-> totalEscrowPV(d)]

-----------------------------------------------------------------------------
(* calculateContract, averaged-AAV formulation without the escrow stream   *)
(* (src/unnamed/part_000).                                                 *)

RECURSIVE BreakdownLoopAveraged(_, _, _, _)
BreakdownLoopAveraged(d, cbt, i, yearlyBreakdown) ==
  IF ~Leq(N(i), totalTimeline(d)) THEN yearlyBreakdown
  ELSE BreakdownLoopAveraged(d, cbt, i + 1,
         Append(yearlyBreakdown, YearlyData(d, i, cbt)))

calculateContractAveraged(d) ==
  LET tpv == totalPresentValue(d)
      cbt == cbtAAV(d)
  IN  [nominalAAV |-> nominalAAV(d),
       cbtAAV |-> cbt,
       totalPresentValue |-> tpv,
       yearlyBreakdown |-> BreakdownLoopAveraged(d, cbt, 1, <<>>),
       effectiveDiscount |-> effectiveDiscount(nominalAAV(d), cbt)]

-----------------------------------------------------------------------------
(* calculateContract, per-earning-year attribution (the second definition  *)
(* of src/utils/calculations.ts).                                          *)

yearlyDeferredPayout(d) == Div(d.deferralAmount, d.payoutDuration)

(* Mutant: the whole future check is attributed to each earning year. *)
portionOfWholeCheck(d) == yearlyDeferredPayout(d)
portionAttributedToThisYear(d) == Div(yearlyDeferredPayout(d), d.years)

(* The inner loop: the installments discounted back to playing year i.    *)
(* A sum that is NaN stays NaN.                                            *)
RECURSIVE StreamLoop(_, _, _, _)
StreamLoop(d, i, p, acc) ==
  IF IsNaN(acc) \/ ~Less(N(p), d.payoutDuration) THEN acc
  ELSE StreamLoop(d, i, p + 1,
         Add(acc, calculatePresentValue(portionAttributedToThisYear(d),
                                        timeDiff(d, i, p), d.interestRate)))

presentValueOfDeferredStream(d, i) == StreamLoop(d, i, 0, Zero)

cbtHit(d, i) ==
  IF Leq(N(i), d.years)
  THEN Add(yearlyCashSalary(d), presentValueOfDeferredStream(d, i))
  ELSE Zero

YearlyDataPerYear(d, i, hit) ==
  [year |-> i,
   label |-> label(d, i),
   cashPay |-> IF Leq(N(i), d.years) THEN yearlyCashSalary(d) ELSE Zero,
   deferredEarned |-> IF Leq(N(i), d.years) THEN yearlyDeferral(d) ELSE Zero,
   cbtValue |-> IF Leq(N(i), d.years) THEN hit ELSE Zero,
   payoutReceived |->
     LET salary == IF Leq(N(i), d.years) THEN Add(Zero, yearlyCashSalary(d)) ELSE Zero
     IN  IF Leq(payoutStartIndex(d), N(i)) /\ Leq(N(i), payoutEndIndex(d))
         THEN Add(salary, yearlyDeferredPayout(d))
         ELSE salary]

(* The timeline loop; it returns the records and the accumulated           *)
(* totalCBTValue.                                                          *)
RECURSIVE BreakdownLoopPerYear(_, _, _, _)
BreakdownLoopPerYear(d, i, totalCBTValue, yearlyBreakdown) ==
  IF ~Leq(N(i), totalTimeline(d)) THEN <<yearlyBreakdown, totalCBTValue>>
  ELSE LET hit == cbtHit(d, i)
       IN  BreakdownLoopPerYear(d, i + 1,
             IF Leq(N(i), d.years) THEN Add(totalCBTValue, hit) ELSE totalCBTValue,
             Append(yearlyBreakdown, YearlyDataPerYear(d, i, hit)))

calculateContractPerYear(d) ==
  LET loop == BreakdownLoopPerYear(d, 1, Zero, <<>>)
      total == loop[2]
      cbt == Div(total, d.years)
  IN  [nominalAAV |-> nominalAAV(d),
       cbtAAV |-> cbt,
       totalPresentValue |-> total,
       yearlyBreakdown |-> loop[1],
       effectiveDiscount |-> effectiveDiscount(nominalAAV(d), cbt)]

Variants == {"escrow", "averaged", "perYear"}

Calculate(v, d) ==
  CASE v = "escrow" -> calculateContract(d)
    [] v = "averaged" -> calculateContractAveraged(d)
    [] v = "perYear" -> calculateContractPerYear(d)

-----------------------------------------------------------------------------
(* The calls of calculatePresentValue a calculation makes, in the order of *)
(* the loops that make them.                                               *)

(* Mutant: the inner loop runs while p <= payoutDuration. *)
RECURSIVE PayoutCallsInclusive(_, _, _, _)
PayoutCallsInclusive(d, escrow, earningYear, p) ==
  IF ~Leq(N(p), d.payoutDuration) THEN <<>>
  ELSE <<PVCall(installmentPerPayoutYear(d), timeDiff(d, earningYear, p),
                d.interestRate)>>
         \o (IF escrow
             THEN <<PVCall(installmentPerPayoutYear(d), timeDiff(d, earningYear, p),
                           ESCROW_DISCOUNT_RATE)>>
             ELSE <<>>)
         \o PayoutCallsInclusive(d, escrow, earningYear, p + 1)

(* The inner loop of the averaged formulations: one call at the input rate *)
(* per installment and, in the formulation with the escrow stream, one     *)
(* more at the escrow rate.                                                *)
RECURSIVE PayoutCalls(_, _, _, _)
PayoutCalls(d, escrow, earningYear, p) ==
  IF ~Less(N(p), d.payoutDuration) THEN <<>>
  ELSE <<PVCall(installmentPerPayoutYear(d), timeDiff(d, earningYear, p),
                d.interestRate)>>
         \o (IF escrow
             THEN <<PVCall(installmentPerPayoutYear(d), timeDiff(d, earningYear, p),
                           ESCROW_DISCOUNT_RATE)>>
             ELSE <<>>)
         \o PayoutCalls(d, escrow, earningYear, p + 1)

RECURSIVE EarningCalls(_, _, _)
EarningCalls(d, escrow, earningYear) ==
  IF ~Leq(N(earningYear), d.years) THEN <<>>
  ELSE PayoutCalls(d, escrow, earningYear, 0) \o EarningCalls(d, escrow, earningYear + 1)

(* The inner loop of the per-earning-year formulation. *)
RECURSIVE StreamCalls(_, _, _)
StreamCalls(d, i, p) ==
  IF ~Less(N(p), d.payoutDuration) THEN <<>>
  ELSE <<PVCall(portionAttributedToThisYear(d), timeDiff(d, i, p), d.interestRate)>>
         \o StreamCalls(d, i, p + 1)

(* Its timeline loop: the inner loop runs in the playing years only. *)
RECURSIVE TimelineCalls(_, _)
TimelineCalls(d, i) ==
  IF ~Leq(N(i), totalTimeline(d)) THEN <<>>
  ELSE (IF Leq(N(i), d.years) THEN StreamCalls(d, i, 0) ELSE <<>>)
         \o TimelineCalls(d, i + 1)

-----------------------------------------------------------------------------
(* The calculator on valid ContractData: the inputs are drawn from the     *)
(* terms the specification calls valid and from the three scenarios of the *)
(* form, and each formulation is applied.                                  *)

Moneys == {N(0), N(6), N(12)}

Rates == {N(-50), N(0), N(25), N(100)}

ValidData ==
  {d \in [totalValue : Moneys,
          years : {N(y) : y \in 1 .. MaxYears},
          deferralAmount : Moneys,
          deferralStartYear : {N(s) : s \in 0 .. MaxStart},
          payoutDuration : {N(q) : q \in 1 .. MaxPayout},
          interestRate : Rates] :
     Leq(d.deferralAmount, d.totalValue)}

(* The scenarios of the form's buttons. *)
Scenarios == {"ohtani", "scherzer", "standard"}

ScenarioData(scenario) ==
  IF scenario = "ohtani"
  THEN ContractData(N(700000000), N(10), N(680000000), N(1), N(10), <<443, 100>>)
  ELSE IF scenario = "scherzer"
  THEN ContractData(N(210000000), N(7), N(105000000), N(1), N(7), <<5, 2>>)
  ELSE ContractData(N(100000000), N(5), N(0), N(1), N(5), <<9, 2>>)

(* The initial form state of App: the "Ohtani" structure. *)
InitialFormData ==
  ContractData(N(700000000), N(10), N(680000000), N(1), N(10), <<443, 100>>)

InitCalc ==
  /\ data \in ValidData \cup {ScenarioData(scenario) : scenario \in Scenarios}
  /\ variant = "none"
  /\ result = NULL
  /\ evaluations = <<>>
  /\ formData = InitialFormData
  /\ errors = <<>>
  /\ results = NULL
  /\ edits = 0
  /\ call = NoCall
  /\ pv = NULL

CalculateEscrow ==
  /\ result = NULL
  /\ variant' = "escrow"
  /\ result' = calculateContract(data)
  /\ evaluations' = EarningCalls(data, TRUE, 1)
  /\ UNCHANGED <<data, appVars, pvVars>>

CalculateAveraged ==
  /\ result = NULL
  /\ variant' = "averaged"
  /\ result' = calculateContractAveraged(data)
  /\ evaluations' = EarningCalls(data, FALSE, 1)
  /\ UNCHANGED <<data, appVars, pvVars>>

CalculatePerYear ==
  /\ result = NULL
  /\ variant' = "perYear"
  /\ result' = calculateContractPerYear(data)
  /\ evaluations' = TimelineCalls(data, 1)
  /\ UNCHANGED <<data, appVars, pvVars>>

NextCalc == CalculateEscrow \/ CalculateAveraged \/ CalculatePerYear

Spec == InitCalc /\ [][NextCalc]_vars

-----------------------------------------------------------------------------
(* calculatePresentValue on its own: the function is exported and takes    *)
(* any amount, any whole delay (negative, zero or positive) and any rate;  *)
(* nothing validates the rate.                                             *)

Amounts == {N(-6), N(0), N(6), <<7, 2>>}

PVRates == {N(-200), N(-100), N(-50), N(0), N(25), N(100)}

InitPV ==
  /\ call \in {PVCall(f, n, r) : f \in Amounts, n \in -MaxDelay .. MaxDelay, r \in PVRates}
  /\ pv = NULL
  /\ data = InitialFormData
  /\ variant = "none"
  /\ result = NULL
  /\ evaluations = <<>>
  /\ formData = InitialFormData
  /\ errors = <<>>
  /\ results = NULL
  /\ edits = 0

PresentValue ==
  /\ pv = NULL
  /\ pv' = calculatePresentValue(call.futureValue, call.years, call.rate)
  /\ UNCHANGED <<call, calcVars, appVars>>

NextPV == PresentValue

SpecPV == InitPV /\ [][NextPV]_vars

-----------------------------------------------------------------------------
(* The App component: formData, errors and results, with the effect that   *)
(* recomputes results after every state change run as part of the event    *)
(* that caused it.  calculateContract is a pure function, so the           *)
(* CalculationResult held in results is recorded by the ContractData it    *)
(* was computed from: [of |-> d] stands for calculateContract(d).          *)

(* The errors object: a map from field names to messages. *)
EmptyErrors == [k \in {} |-> ""]

Delete(m, k) == [x \in DOMAIN m \ {k} |-> m[x]]

Put(m, k, v) == [x \in DOMAIN m \cup {k} |-> IF x = k THEN v ELSE m[x]]

(* Mutant: the deferral check runs only when deferralAmount is edited. *)
validateOnDeferralEdit(name, value, currentData, errs) ==
  LET dataToCheck == [currentData EXCEPT ![name] = value]
      cleaned == Delete(errs, name)
      afterDeferral ==
        IF name = "deferralAmount"
        THEN IF Less(dataToCheck.totalValue, dataToCheck.deferralAmount)
             THEN Put(cleaned, "deferralAmount", "Deferral cannot exceed Total Value")
             ELSE Delete(cleaned, "deferralAmount")
        ELSE cleaned
      afterYears ==
        IF name = "years" /\ Less(value, One)
        THEN Put(afterDeferral, "years", "Contract length must be at least 1 year")
        ELSE Delete(afterDeferral, "years")
      afterPayout ==
        IF name = "payoutDuration" /\ Less(value, One)
        THEN Put(afterYears, "payoutDuration", "Payout must take at least 1 year")
        ELSE Delete(afterYears, "payoutDuration")
  IN  afterPayout
validate(name, value, currentData, errs) ==
  LET dataToCheck == [currentData EXCEPT ![name] = value]
      cleaned == Delete(errs, name)
      afterDeferral ==
        IF name = "totalValue" \/ name = "deferralAmount"
        THEN IF Less(dataToCheck.totalValue, dataToCheck.deferralAmount)
             THEN Put(cleaned, "deferralAmount", "Deferral cannot exceed Total Value")
             ELSE Delete(cleaned, "deferralAmount")
        ELSE cleaned
      afterYears ==
        IF name = "years" /\ Less(value, One)
        THEN Put(afterDeferral, "years", "Contract length must be at least 1 year")
        ELSE Delete(afterDeferral, "years")
      afterPayout ==
        IF name = "payoutDuration" /\ Less(value, One)
        THEN Put(afterYears, "payoutDuration", "Payout must take at least 1 year")
        ELSE Delete(afterYears, "payoutDuration")
  IN  afterPayout

(* Mutant: results is recomputed whatever errors holds. *)
EffectAlways(fd, errs, res) == [of |-> fd]
(* useEffect on [formData, errors]: results is recomputed only while the   *)
(* errors object has no key.                                               *)
Effect(fd, errs, res) == IF DOMAIN errs = {} THEN [of |-> fd] ELSE res

(* The text of an input field, as a sequence of characters. *)
Digits == {"0", "1", "5"}

DigitValue(c) == CASE c = "0" -> 0 [] c = "1" -> 1 [] c = "5" -> 5

Texts ==
  {<<>>, <<"0">>, <<"1">>, <<"5">>, <<"-", "1">>, <<"1", ",", "0">>,
   <<"-">>, <<"x">>, <<"1", "x">>}

(* value.replace(/,/g, '') and rawValue.replace(/-/g, '') *)
Remove(text, ch) == SelectSeq(text, LAMBDA c : c # ch)

(* !isNaN(Number(rawValue)) on a non-empty text of these characters *)
IsNumber(rawValue) == \A k \in 1 .. Len(rawValue) : rawValue[k] \in Digits

RECURSIVE parseFloat(_)
parseFloat(rawValue) ==
  IF rawValue = <<>> THEN 0
  ELSE 10 * parseFloat(SubSeq(rawValue, 1, Len(rawValue) - 1))
         + DigitValue(rawValue[Len(rawValue)])

InitApp ==
  /\ formData = InitialFormData
  /\ errors = EmptyErrors
  /\ results = NULL
  /\ edits = 0
  /\ data = InitialFormData
  /\ variant = "none"
  /\ result = NULL
  /\ evaluations = <<>>
  /\ call = NoCall
  /\ pv = NULL

(* The first render: the effect runs on the initial state. *)
Mount ==
  /\ results = NULL
  /\ results' = Effect(formData, errors, results)
  /\ UNCHANGED <<formData, errors, edits, calcVars, pvVars>>

handleInputChange(name, value) ==
  LET rawValue == Remove(Remove(value, ","), "-")
  IN  /\ results # NULL
      /\ edits < MaxEdits
      /\ edits' = edits + 1
      /\ IF rawValue = <<>>
         THEN /\ formData' = [formData EXCEPT ![name] = Zero]
              /\ errors' = validate(name, Zero, formData, errors)
              /\ results' = Effect(formData', errors', results)
         ELSE IF IsNumber(rawValue)
         THEN LET numValue == N(parseFloat(rawValue))
              IN  /\ formData' = [formData EXCEPT ![name] = numValue]
                  /\ errors' = validate(name, numValue, formData, errors)
                  /\ results' = Effect(formData', errors', results)
         ELSE UNCHANGED <<formData, errors, results>>
      /\ UNCHANGED <<calcVars, pvVars>>

loadScenario(scenario) ==
  /\ results # NULL
  /\ edits < MaxEdits
  /\ edits' = edits + 1
  /\ errors' = EmptyErrors
  /\ formData' = ScenarioData(scenario)
  /\ results' = Effect(formData', errors', results)
  /\ UNCHANGED <<calcVars, pvVars>>

NextApp ==
  \/ Mount
  \/ \E name \in Fields, value \in Texts : handleInputChange(name, value)
  \/ \E scenario \in Scenarios : loadScenario(scenario)

SpecApp == InitApp /\ [][NextApp]_vars

-----------------------------------------------------------------------------
(* Properties of the calculator. *)

Done == variant # "none"

Rows == result.yearlyBreakdown

RECURSIVE SumField(_, _, _)
SumField(rows, f, n) ==
  IF n = 0 THEN Zero ELSE Add(SumField(rows, f, n - 1), rows[n][f])

(* The deferred installments received: payoutReceived minus cashPay. *)
RECURSIVE SumInstallments(_, _)
SumInstallments(rows, n) ==
  IF n = 0 THEN Zero
  ELSE Add(SumInstallments(rows, n - 1), Sub(rows[n].payoutReceived, rows[n].cashPay))

IntMax(a, b) == IF a < b THEN b ELSE a

Years == ToInt(data.years)

Start == ToInt(data.deferralStartYear)

Payout == ToInt(data.payoutDuration)

(* C1: conservation.  For every valid ContractData the cash salaries plus  *)
(* the deferred installments received over the whole timeline add up to    *)
(* totalValue, and so does the sum of payoutReceived.                      *)
C1_Conservation ==
  Done =>
    /\ Add(SumField(Rows, "cashPay", Len(Rows)), SumInstallments(Rows, Len(Rows)))
         = data.totalValue
    /\ SumField(Rows, "payoutReceived", Len(Rows)) = data.totalValue

(* A contract with cash and deferred money whose payout window starts in   *)
(* the last playing year has been calculated.                              *)
C1_Witness ==
  /\ Done
  /\ Less(Zero, data.deferralAmount)
  /\ Less(data.deferralAmount, data.totalValue)
  /\ Start = 0
  /\ Years >= 2
  /\ Payout >= 2

(* C2: timeline length.  yearlyBreakdown has exactly                       *)
(* max(years, years + deferralStartYear + payoutDuration) records and the  *)
(* record at position k has year = k.                                      *)
C2_TimelineLength ==
  Done =>
    /\ Len(Rows) = IntMax(Years, Years + Start + Payout)
    /\ \A k \in 1 .. Len(Rows) : Rows[k].year = k

C2_Witness == Done /\ Years >= 2 /\ Start >= 1 /\ Payout >= 2 /\ Len(Rows) >= 5

(* The recognized value the per-earning-year attribution gives earning     *)
(* year e: the cash salary plus every installment of that year's deferred  *)
(* slice discounted over years + deferralStartYear + p - e years.          *)
RECURSIVE AttributedPV(_, _, _)
AttributedPV(d, e, p) ==
  IF p < 0 THEN Zero
  ELSE Add(AttributedPV(d, e, p - 1),
           Div(Div(Div(d.deferralAmount, d.years), d.payoutDuration),
               MathPow(Add(One, Div(d.interestRate, N(100))),
                       ToInt(d.years) + ToInt(d.deferralStartYear) + p - e)))

PerYearValue(d, e) ==
  Add(Sub(Div(d.totalValue, d.years), Div(d.deferralAmount, d.years)),
      AttributedPV(d, e, ToInt(d.payoutDuration) - 1))

(* C3 as claimed: in every formulation the cbtValue of each earning year e *)
(* is the cash salary plus the installments discounted back to year e.     *)
C3_Original ==
  Done => \A e \in 1 .. Years : Rows[e].cbtValue = PerYearValue(data, e)

(* C3 as amended: the per-earning-year formulation attributes to earning   *)
(* year e the cash salary plus the installments discounted back to year e; *)
(* the two averaged formulations give every earning year the cbtAAV.       *)
C3_PerYearAttribution ==
  /\ variant = "perYear" =>
       \A e \in 1 .. Years : Rows[e].cbtValue = PerYearValue(data, e)
  /\ variant \in {"escrow", "averaged"} =>
       \A e \in 1 .. Years : Rows[e].cbtValue = result.cbtAAV

(* The per-earning-year formulation has given two earning years different  *)
(* recognized values.                                                      *)
C3_Witness ==
  /\ variant = "perYear"
  /\ Less(Zero, data.deferralAmount)
  /\ Years >= 2
  /\ Less(Rows[1].cbtValue, Rows[2].cbtValue)

(* C4: totalPresentValue is the sum of cbtValue over all records and       *)
(* cbtAAV is that sum divided by years.                                    *)
C4_Aggregate ==
  Done =>
    /\ result.totalPresentValue = SumField(Rows, "cbtValue", Len(Rows))
    /\ result.cbtAAV = Div(SumField(Rows, "cbtValue", Len(Rows)), data.years)

C4_Witness ==
  /\ Done
  /\ Less(Zero, data.deferralAmount)
  /\ data.interestRate # Zero
  /\ Years >= 2
  /\ Years # Payout

(* C5: zero rate.  With interestRate = 0, cbtAAV equals nominalAAV and     *)
(* effectiveDiscount equals 0.                                             *)
C5_ZeroRate ==
  (Done /\ data.interestRate = Zero) =>
    /\ result.cbtAAV = result.nominalAAV
    /\ result.effectiveDiscount = Zero

(* C6: zero deferral.  With deferralAmount = 0 every record's cbtValue is  *)
(* its cashPay (totalValue / years in earning years, 0 afterwards) and     *)
(* cbtAAV equals nominalAAV, at any rate.                                  *)
C6_ZeroDeferral ==
  (Done /\ data.deferralAmount = Zero) =>
    /\ \A k \in 1 .. Len(Rows) :
         /\ Rows[k].cbtValue = Rows[k].cashPay
         /\ Rows[k].cashPay =
              (IF k <= Years THEN Div(data.totalValue, data.years) ELSE Zero)
    /\ result.cbtAAV = result.nominalAAV

C6_Witness ==
  /\ Done
  /\ data.deferralAmount = Zero
  /\ Less(Zero, data.totalValue)
  /\ data.interestRate # Zero
  /\ Len(Rows) > Years

(* The same terms calculated at another rate by the same formulation. *)
AtRate(r) == Calculate(variant, [data EXCEPT !.interestRate = r])

(* C7 as claimed: with deferralAmount > 0, a higher rate gives a strictly  *)
(* lower cbtAAV and a strictly greater effectiveDiscount, for all valid    *)
(* years, deferralStartYear and payoutDuration.                            *)
C7_Original ==
  (Done /\ Less(Zero, data.deferralAmount)) =>
    \A r1 \in Rates :
      Less(r1, data.interestRate) =>
        /\ Less(result.cbtAAV, AtRate(r1).cbtAAV)
        /\ Less(AtRate(r1).effectiveDiscount, result.effectiveDiscount)

(* C7 as amended: the same, provided some installment is paid after the    *)
(* year it was earned in, that is years + deferralStartYear +              *)
(* payoutDuration > 2.                                                     *)
C7_MonotonicDiscount ==
  (Done /\ Less(Zero, data.deferralAmount) /\ Years + Start + Payout > 2) =>
    \A r1 \in Rates :
      Less(r1, data.interestRate) =>
        /\ Less(result.cbtAAV, AtRate(r1).cbtAAV)
        /\ Less(AtRate(r1).effectiveDiscount, result.effectiveDiscount)

(* Deferred money calculated at the highest rate with the payout starting  *)
(* in the last playing year.                                               *)
C7_Witness ==
  /\ Done
  /\ Less(Zero, data.deferralAmount)
  /\ Years + Start + Payout > 2
  /\ Start = 0
  /\ \A r \in Rates : Leq(r, data.interestRate)

(* C9: for every valid ContractData, totalValue = 0 included, every        *)
(* numeric field of the result is a defined finite number.                 *)
C9_AllFinite ==
  Done =>
    /\ IsFinite(result.nominalAAV)
    /\ IsFinite(result.cbtAAV)
    /\ IsFinite(result.totalPresentValue)
    /\ IsFinite(result.effectiveDiscount)
    /\ \A k \in 1 .. Len(Rows) :
         /\ IsFinite(Rows[k].cashPay)
         /\ IsFinite(Rows[k].deferredEarned)
         /\ IsFinite(Rows[k].cbtValue)
         /\ IsFinite(Rows[k].payoutReceived)

(* C10: every record after the earning period has cbtValue = 0,            *)
(* cashPay = 0 and deferredEarned = 0.                                     *)
C10_ZeroAfterEarning ==
  Done =>
    \A k \in 1 .. Len(Rows) :
      k > Years =>
        /\ Rows[k].cbtValue = Zero
        /\ Rows[k].cashPay = Zero
        /\ Rows[k].deferredEarned = Zero

(* A record after the earning period of a contract whose earning years     *)
(* carry cash, deferred money and recognized value.                        *)
C10_Witness ==
  /\ Done
  /\ Len(Rows) > Years
  /\ Less(Zero, Rows[1].cashPay)
  /\ Less(Zero, Rows[1].deferredEarned)
  /\ Less(Zero, Rows[1].cbtValue)
  /\ Rows[Len(Rows)].payoutReceived = Zero

(* C11: for every valid ContractData, nominalAAV = totalValue / years and   *)
(* effectiveDiscount = (nominalAAV - cbtAAV) / nominalAAV * 100, evaluated  *)
(* in number arithmetic (with totalValue = 0 the quotient is 0 / 0 and both *)
(* sides are NaN).                                                          *)
C11_NominalAndDiscount ==
  Done =>
    /\ result.nominalAAV = Div(data.totalValue, data.years)
    /\ result.effectiveDiscount =
         Mul(Div(Sub(Div(data.totalValue, data.years), result.cbtAAV),
                 Div(data.totalValue, data.years)),
             N(100))
    /\ Less(Zero, data.totalValue) => IsFinite(result.effectiveDiscount)

(* Deferred money discounted at a positive rate: the discount is strictly  *)
(* between 0 and 100 per cent.                                             *)
C11_Witness ==
  /\ Done
  /\ Less(Zero, data.deferralAmount)
  /\ Less(Zero, data.interestRate)
  /\ Years >= 2
  /\ Less(Zero, result.effectiveDiscount)
  /\ Less(result.effectiveDiscount, N(100))

(* C12 as claimed: the pure-cash scenario (totalValue 100,000,000, 5 years, *)
(* no deferral, deferralStartYear 1, payoutDuration 5, rate 4.5) gives a    *)
(* yearlyBreakdown of exactly 5 records, nominalAAV = cbtAAV = 20,000,000   *)
(* and effectiveDiscount = 0.                                               *)
C12_Original ==
  (Done /\ data = ScenarioData("standard")) =>
    /\ Len(Rows) = 5
    /\ result.nominalAAV = N(20000000)
    /\ result.cbtAAV = N(20000000)
    /\ result.effectiveDiscount = Zero

(* C12 as amended: the pure-cash scenario gives a yearlyBreakdown of        *)
(* exactly 11 = max(5, 5 + 1 + 5) records, the 5 earning years followed by  *)
(* 6 records in which nothing is received or recognized, with              *)
(* nominalAAV = cbtAAV = 20,000,000 and effectiveDiscount = 0.              *)
C12_PureCash ==
  (Done /\ data = ScenarioData("standard")) =>
    /\ Len(Rows) = 11
    /\ \A k \in 1 .. 5 :
         Rows[k].payoutReceived = N(20000000) /\ Rows[k].cbtValue = N(20000000)
    /\ \A k \in 6 .. 11 :
         Rows[k].payoutReceived = Zero /\ Rows[k].cbtValue = Zero
    /\ result.nominalAAV = N(20000000)
    /\ result.cbtAAV = N(20000000)
    /\ result.effectiveDiscount = Zero

(* The pure-cash scenario has been calculated. *)
C12_Witness ==
  /\ Done
  /\ data = ScenarioData("standard")
  /\ data.interestRate = <<9, 2>>
  /\ Rows[5].cashPay = N(20000000)

(* C16: the full-deferral scenario (totalValue 700,000,000, 10 years,      *)
(* deferralAmount 680,000,000, deferralStartYear 1, payoutDuration 10,     *)
(* rate 4.43) gives nominalAAV = 70,000,000, a cbtAAV strictly below it, an *)
(* effectiveDiscount strictly above 0 and exactly 21 records.              *)
C16_FullDeferral ==
  (Done /\ data = ScenarioData("ohtani")) =>
    /\ result.nominalAAV = N(70000000)
    /\ Less(result.cbtAAV, result.nominalAAV)
    /\ Less(Zero, result.effectiveDiscount)
    /\ Len(Rows) = 21

(* The full-deferral scenario has been calculated by the first             *)
(* formulation; its cbtAAV lies between 46 and 47 million.                 *)
C16_Witness ==
  /\ Done
  /\ data = ScenarioData("ohtani")
  /\ variant = "escrow"
  /\ Less(N(46000000), result.cbtAAV)
  /\ Less(result.cbtAAV, N(47000000))

(* C17: for the terms of the full-deferral scenario, the cbtAAV at         *)
(* interestRate 4.43 is strictly lower than the cbtAAV at interestRate 2.5. *)
C17_RateSensitivity ==
  (Done /\ data = ScenarioData("ohtani")) =>
    Less(result.cbtAAV, AtRate(<<5, 2>>).cbtAAV)

(* The full-deferral scenario has been calculated at 4.43 and its cbtAAV   *)
(* at 2.5 lies below the nominal 70,000,000.                               *)
C17_Witness ==
  /\ Done
  /\ data = ScenarioData("ohtani")
  /\ data.interestRate = <<443, 100>>
  /\ Less(AtRate(<<5, 2>>).cbtAAV, N(70000000))

(* The delays passed to calculatePresentValue: one per earning year e and  *)
(* installment p of the discounting loops.                                 *)
Delays == {timeDiff(data, e, p) : e \in 1 .. Years, p \in 0 .. Payout - 1}

(* The first timeline year in which more than the cash salary is received. *)
FirstInstallmentYear ==
  CHOOSE k \in 1 .. Len(Rows) :
    /\ Rows[k].payoutReceived # Rows[k].cashPay
    /\ \A j \in 1 .. k - 1 : Rows[j].payoutReceived = Rows[j].cashPay

(* C13 as claimed: with deferralStartYear = 0 the first deferred           *)
(* installment is received in timeline year years + 1 and the smallest     *)
(* delay passed to calculatePresentValue is 1.                             *)
C13_Original ==
  (Done /\ Start = 0) =>
    /\ Less(Zero, data.deferralAmount) => FirstInstallmentYear = Years + 1
    /\ 1 \in Delays
    /\ \A t \in Delays : t >= 1

(* C13 as amended: with deferralStartYear = 0 the first deferred           *)
(* installment is received in the last contract year, timeline year        *)
(* years, together with that year's salary, and the smallest delay passed  *)
(* to calculatePresentValue is 0.                                          *)
C13_StartZero ==
  (Done /\ Start = 0) =>
    /\ Less(Zero, data.deferralAmount) =>
         /\ FirstInstallmentYear = Years
         /\ Rows[Years].payoutReceived =
              Add(Rows[Years].cashPay, Div(data.deferralAmount, data.payoutDuration))
    /\ 0 \in Delays
    /\ \A t \in Delays : t >= 0

(* Deferred money with deferralStartYear = 0 on a contract of several      *)
(* years with cash salary.                                                 *)
C13_Witness ==
  /\ Done
  /\ Start = 0
  /\ Years >= 2
  /\ Less(Zero, data.deferralAmount)
  /\ Less(Zero, Rows[Years].cashPay)
  /\ Less(Rows[Years].cashPay, Rows[Years].payoutReceived)

(* C14: payoutReceived of timeline year i is the cash salary if            *)
(* i <= years (else 0) plus deferralAmount / payoutDuration if             *)
(* years + deferralStartYear <= i <= years + deferralStartYear +           *)
(* payoutDuration - 1 (else 0); a year in both windows receives both.      *)
C14_PayoutReceived ==
  Done =>
    \A k \in 1 .. Len(Rows) :
      Rows[k].payoutReceived =
        Add(IF k <= Years
            THEN Sub(Div(data.totalValue, data.years),
                     Div(data.deferralAmount, data.years))
            ELSE Zero,
            IF Years + Start <= k /\ k <= Years + Start + Payout - 1
            THEN Div(data.deferralAmount, data.payoutDuration)
            ELSE Zero)

(* A year that lies in both windows and one that lies in neither. *)
C14_Witness ==
  /\ Done
  /\ Start = 0
  /\ Years # Payout
  /\ Less(Zero, data.deferralAmount)
  /\ Less(data.deferralAmount, data.totalValue)
  /\ Less(Rows[1].payoutReceived, Rows[Years].payoutReceived)
  /\ Rows[Len(Rows)].payoutReceived = Zero

(* C15: in the formulation that keeps the running total, cumulativeReceived *)
(* of record i is the sum of payoutReceived over records 1 .. i, it never   *)
(* decreases along the timeline, and the last record's cumulativeReceived   *)
(* is totalValue.                                                           *)
C15_CumulativeReceived ==
  variant = "escrow" =>
    /\ \A k \in 1 .. Len(Rows) :
         Rows[k].cumulativeReceived = SumField(Rows, "payoutReceived", k)
    /\ \A k \in 2 .. Len(Rows) :
         Leq(Rows[k - 1].cumulativeReceived, Rows[k].cumulativeReceived)
    /\ Rows[Len(Rows)].cumulativeReceived = data.totalValue

(* The running total grows over the earning years, stays level over a gap  *)
(* year and grows again over the payout years.                             *)
C15_Witness ==
  /\ variant = "escrow"
  /\ Years >= 2
  /\ Start = 2
  /\ Payout >= 2
  /\ Less(Rows[1].cumulativeReceived, Rows[2].cumulativeReceived)
  /\ Rows[Years].cumulativeReceived = Rows[Years + 1].cumulativeReceived
  /\ Less(Rows[Years + 2].cumulativeReceived, Rows[Years + 3].cumulativeReceived)

(* C19: for every valid ContractData every delay passed to                 *)
(* calculatePresentValue, payoutYear - earningYear, is at least 0.         *)
C19_DelaysNonNegative ==
  Done => \A t \in Delays : t >= 0

(* The last earning year's first installment is paid in that same year. *)
C19_Witness ==
  /\ Done
  /\ Years >= 2
  /\ Payout >= 2
  /\ timeDiff(data, Years, 0) = 0
  /\ Cardinality(Delays) >= 3

(* C20: records with i <= years are labelled "Year i", records with        *)
(* i > years are labelled "Deferred M" with M = i - years; the labels are  *)
(* pairwise distinct and the deferred labels run 1, 2, ... without gaps.   *)
C20_Labels ==
  Done =>
    /\ \A k \in 1 .. Len(Rows) :
         Rows[k].label =
           (IF k <= Years
            THEN <<"Y", "e", "a", "r", " ">> \o DecimalDigits(k)
            ELSE <<"D", "e", "f", "e", "r", "r", "e", "d", " ">>
                   \o DecimalDigits(k - Years))
    /\ \A j, k \in 1 .. Len(Rows) : j # k => Rows[j].label # Rows[k].label
    /\ Len(Rows) > Years =>
         Rows[Years + 1].label = <<"D", "e", "f", "e", "r", "r", "e", "d", " ", "1">>

C20_Witness ==
  /\ Done
  /\ Years >= 2
  /\ Len(Rows) >= Years + 3
  /\ Rows[2].label = <<"Y", "e", "a", "r", " ", "2">>
  /\ Rows[Years + 3].label = <<"D", "e", "f", "e", "r", "r", "e", "d", " ", "3">>

(* C24: for every valid ContractData calculateContract terminates after    *)
(* exactly years * payoutDuration evaluations of calculatePresentValue at  *)
(* the input interestRate, one per earning year e and installment p with   *)
(* delay years + deferralStartYear + p - e (the formulation with the       *)
(* escrow stream pairs each with one evaluation at the rate 5), and after  *)
(* exactly max(years, years + deferralStartYear + payoutDuration)          *)
(* iterations of the timeline loop, each of which pushes one record.       *)
C24_Evaluations ==
  Done =>
    /\ Len(Rows) = IntMax(Years, Years + Start + Payout)
    /\ variant \in {"averaged", "perYear"} =>
         /\ Len(evaluations) = Years * Payout
         /\ \A e \in 1 .. Years, p \in 0 .. Payout - 1 :
              /\ evaluations[(e - 1) * Payout + p + 1].rate = data.interestRate
              /\ evaluations[(e - 1) * Payout + p + 1].years = Years + Start + p - e
    /\ variant = "escrow" =>
         /\ Len(evaluations) = 2 * Years * Payout
         /\ \A e \in 1 .. Years, p \in 0 .. Payout - 1 :
              /\ evaluations[2 * ((e - 1) * Payout + p) + 1].rate = data.interestRate
              /\ evaluations[2 * ((e - 1) * Payout + p) + 1].years = Years + Start + p - e
              /\ evaluations[2 * ((e - 1) * Payout + p) + 2].rate = ESCROW_DISCOUNT_RATE
              /\ evaluations[2 * ((e - 1) * Payout + p) + 2].years = Years + Start + p - e

(* A calculation of several earning years and several installments with a  *)
(* timeline longer than the evaluations are many.                          *)
C24_Witness ==
  /\ Done
  /\ variant = "perYear"
  /\ Years >= 2
  /\ Payout >= 2
  /\ Years # Payout
  /\ Len(evaluations) = Years * Payout
  /\ Len(Rows) > Len(evaluations)

(* The fields every formulation returns, per record and per result. *)
CommonRecord(row) ==
  [year |-> row.year, label |-> row.label, cashPay |-> row.cashPay,
   deferredEarned |-> row.deferredEarned, payoutReceived |-> row.payoutReceived]

Aggregates(res) ==
  [nominalAAV |-> res.nominalAAV, cbtAAV |-> res.cbtAAV,
   totalPresentValue |-> res.totalPresentValue,
   effectiveDiscount |-> res.effectiveDiscount]

(* The result of another formulation agrees with the one calculated. *)
AgreesWith(other) ==
  /\ Aggregates(other) = Aggregates(result)
  /\ Len(other.yearlyBreakdown) = Len(Rows)
  /\ \A k \in 1 .. Len(Rows) :
       /\ CommonRecord(other.yearlyBreakdown[k]) = CommonRecord(Rows[k])
       /\ k > Years => other.yearlyBreakdown[k].cbtValue = Rows[k].cbtValue

(* The formulation each result is compared with: the two others with the  *)
(* averaged one, the averaged one with the per-earning-year one, so that   *)
(* over the three results of the same data every pair is compared.         *)
Counterpart(v) == IF v = "averaged" THEN "perYear" ELSE "averaged"

(* C25: for every valid ContractData the three formulations return the     *)
(* same nominalAAV, cbtAAV, totalPresentValue and effectiveDiscount, the   *)
(* same number of records and the same year, label, cashPay,               *)
(* deferredEarned and payoutReceived in every record; the cbtValue of the  *)
(* records after the earning period is 0 in all of them, so they differ    *)
(* only in the cbtValue of earning years (and in the fields only one of    *)
(* them has).                                                              *)
C25_Formulations ==
  Done => AgreesWith(Calculate(Counterpart(variant), data))

(* The per-earning-year formulation has given the first earning year a     *)
(* cbtValue below the one the averaged formulations give it.               *)
C25_Witness ==
  /\ variant = "perYear"
  /\ Years >= 2
  /\ Less(Zero, data.deferralAmount)
  /\ Less(Rows[1].cbtValue, cbtAAV(data))
  /\ result.cbtAAV = cbtAAV(data)

(* C26: the last record of yearlyBreakdown, year = years +                 *)
(* deferralStartYear + payoutDuration, lies after the payout window and    *)
(* has payoutReceived = 0, cashPay = 0 and cbtValue = 0: the timeline ends *)
(* with one year in which nothing is earned or received, and the last      *)
(* deferred installment is paid in the record before it.                   *)
C26_TrailingYear ==
  Done =>
    /\ Len(Rows) >= 2
    /\ Rows[Len(Rows)].year = Years + Start + Payout
    /\ Rows[Len(Rows)].payoutReceived = Zero
    /\ Rows[Len(Rows)].cashPay = Zero
    /\ Rows[Len(Rows)].cbtValue = Zero
    /\ Rows[Len(Rows) - 1].payoutReceived =
         Add(Rows[Len(Rows) - 1].cashPay, Div(data.deferralAmount, data.payoutDuration))

(* The single installment is paid in the last playing year together with   *)
(* the salary, and one empty year follows.                                 *)
C26_Witness ==
  /\ Done
  /\ Start = 0
  /\ Payout = 1
  /\ Years >= 2
  /\ Less(Zero, data.deferralAmount)
  /\ Less(Zero, Rows[Len(Rows) - 1].cashPay)
  /\ Less(Rows[Len(Rows) - 1].cashPay, Rows[Len(Rows) - 1].payoutReceived)
  /\ Len(Rows) = Years + 1

(* C27: for every valid ContractData with interestRate >= 0 and            *)
(* totalValue > 0, cbtAAV <= nominalAAV, totalPresentValue <= totalValue   *)
(* and 0 <= effectiveDiscount < 100; and cbtAAV is never below the         *)
(* undiscounted cash part (totalValue - deferralAmount) / years.           *)
C27_Bounds ==
  (Done /\ Leq(Zero, data.interestRate) /\ Less(Zero, data.totalValue)) =>
    /\ Leq(result.cbtAAV, result.nominalAAV)
    /\ Leq(result.totalPresentValue, data.totalValue)
    /\ Leq(Zero, result.effectiveDiscount)
    /\ Less(result.effectiveDiscount, N(100))
    /\ Leq(Div(Sub(data.totalValue, data.deferralAmount), data.years), result.cbtAAV)

(* Everything is deferred at the highest rate: the cash part is 0 and the  *)
(* discount lies strictly between 0 and 100.                               *)
C27_Witness ==
  /\ Done
  /\ Less(Zero, data.totalValue)
  /\ data.deferralAmount = data.totalValue
  /\ data.interestRate = N(100)
  /\ Start >= 1
  /\ Less(Zero, result.cbtAAV)
  /\ Less(N(50), result.effectiveDiscount)
  /\ Less(result.effectiveDiscount, N(100))

(* C28: in the per-earning-year formulation, for every valid ContractData  *)
(* with interestRate >= 0, the cbtValue of the earning-year records is     *)
(* non-decreasing in the year index (later earning years have shorter      *)
(* delays), and strictly increasing when interestRate > 0 and              *)
(* deferralAmount > 0.                                                     *)
C28_PerYearMonotone ==
  (variant = "perYear" /\ Leq(Zero, data.interestRate)) =>
    \A e \in 2 .. Years :
      /\ Leq(Rows[e - 1].cbtValue, Rows[e].cbtValue)
      /\ (Less(Zero, data.interestRate) /\ Less(Zero, data.deferralAmount)) =>
           Less(Rows[e - 1].cbtValue, Rows[e].cbtValue)

(* Three earning years of a contract with cash and deferred money at a     *)
(* positive rate, each recognized higher than the one before and below the *)
(* nominal value.                                                          *)
C28_Witness ==
  /\ variant = "perYear"
  /\ Years >= 3
  /\ Less(Zero, data.interestRate)
  /\ Less(Zero, data.deferralAmount)
  /\ Less(data.deferralAmount, data.totalValue)
  /\ Less(Rows[1].cbtValue, Rows[2].cbtValue)
  /\ Less(Rows[2].cbtValue, Rows[3].cbtValue)
  /\ Less(Rows[3].cbtValue, result.nominalAAV)

(* The installments of every earning year e' <= e, each discounted at the  *)
(* fixed rate 5 over its delay.                                            *)
RECURSIVE EscrowSum(_, _)
EscrowSum(d, e) ==
  IF e = 0 THEN Zero
  ELSE Add(EscrowSum(d, e - 1),
           AttributedPV([d EXCEPT !.interestRate = N(5)], e, ToInt(d.payoutDuration) - 1))

(* The same terms at rate r. *)
DataAtRate(r) == [data EXCEPT !.interestRate = r]

(* C29: escrowRequirement is the sum over all (earning year, installment)  *)
(* pairs of the installment discounted at the fixed rate 5; it does not    *)
(* depend on interestRate; and when interestRate = 5 it is                 *)
(* totalPresentValue minus the undiscounted cash total,                    *)
(* totalValue - deferralAmount.                                            *)
C29_EscrowRequirement ==
  variant = "escrow" =>
    /\ result.escrowRequirement = EscrowSum(data, Years)
    /\ \A r \in Rates \cup {N(5)} :
         totalEscrowPV(DataAtRate(r)) = result.escrowRequirement
    /\ result.escrowRequirement =
         Sub(totalPresentValue(DataAtRate(N(5))),
             Sub(data.totalValue, data.deferralAmount))

(* Deferred money calculated at a rate other than 5: the escrow            *)
(* requirement is positive, below the deferred amount and different from   *)
(* the deferred present value at the input rate.                           *)
C29_Witness ==
  /\ variant = "escrow"
  /\ Years >= 2
  /\ Payout >= 2
  /\ Less(Zero, data.deferralAmount)
  /\ data.interestRate # N(5)
  /\ Less(Zero, result.escrowRequirement)
  /\ Less(result.escrowRequirement, data.deferralAmount)
  /\ result.escrowRequirement #
       Sub(result.totalPresentValue, Sub(data.totalValue, data.deferralAmount))

-----------------------------------------------------------------------------
(* Properties of calculatePresentValue. *)

PVAt(n) == calculatePresentValue(call.futureValue, n, call.rate)

(* C18 as claimed: calculatePresentValue returns futureValue when the      *)
(* delay is 0, satisfies PV(f, n + 1, r) = PV(f, n, r) / (1 + r / 100) for *)
(* every whole delay n and every rate, and for rate > 0 and f > 0 a        *)
(* negative delay yields a value greater than f.                           *)
C18_Original ==
  pv # NULL =>
    /\ call.years = 0 => pv = call.futureValue
    /\ PVAt(call.years + 1) = Div(pv, Add(One, Div(call.rate, N(100))))
    /\ (Less(Zero, call.rate) /\ Less(Zero, call.futureValue) /\ call.years < 0) =>
         Less(call.futureValue, pv)

(* C18 as amended: the same, the recurrence being claimed for every rate   *)
(* other than -100 (where 1 + rate / 100 = 0).                             *)
C18_PresentValue ==
  pv # NULL =>
    /\ call.years = 0 => pv = call.futureValue
    /\ call.rate # N(-100) =>
         PVAt(call.years + 1) = Div(pv, Add(One, Div(call.rate, N(100))))
    /\ (Less(Zero, call.rate) /\ Less(Zero, call.futureValue) /\ call.years < 0) =>
         Less(call.futureValue, pv)

(* A positive amount at a positive rate valued over a negative delay. *)
C18_Witness ==
  /\ pv # NULL
  /\ Less(Zero, call.rate)
  /\ Less(Zero, call.futureValue)
  /\ call.years < -1
  /\ Less(call.futureValue, pv)

-----------------------------------------------------------------------------
(* calculatePresentValue at the rates nothing validates. *)

(* The value is a number: NaN, an infinity or a finite fraction. *)
IsNumberValue(x) == IsNaN(x) \/ IsInf(x) \/ IsLong(x) \/ x[2] > 0

(* C21 as claimed: calculatePresentValue never raises an error, and for    *)
(* every rate <= -100, with any futureValue and any delay, it returns an   *)
(* infinite or undefined result rather than a finite number.               *)
C21_Original ==
  pv # NULL =>
    /\ IsNumberValue(pv)
    /\ Leq(call.rate, N(-100)) => ~IsFinite(pv)

(* C21 as amended: calculatePresentValue never raises an error.  At rate   *)
(* -100 with a delay of at least one year the result is not finite: it is  *)
(* an infinity of the sign of futureValue, or NaN when futureValue is 0;   *)
(* with delay 0 it is futureValue and with a negative delay it is 0.  At   *)
(* every other rate, the rates below -100 included, the result for a       *)
(* finite futureValue and a whole delay is finite; below -100 its sign     *)
(* alternates with the delay.                                              *)
C21_UnvalidatedRate ==
  pv # NULL =>
    /\ IsNumberValue(pv)
    /\ (call.rate = N(-100) /\ call.years > 0) =>
         /\ ~IsFinite(pv)
         /\ call.futureValue # Zero => pv = <<Sign(call.futureValue[1]), 0>>
         /\ call.futureValue = Zero => IsNaN(pv)
    /\ (call.rate = N(-100) /\ call.years = 0) => pv = call.futureValue
    /\ (call.rate = N(-100) /\ call.years < 0) => pv = Zero
    /\ call.rate # N(-100) => IsFinite(pv)
    /\ (Less(call.rate, N(-100)) /\ Less(Zero, call.futureValue)) =>
         (Less(pv, Zero) <=> call.years % 2 = 1)

(* A positive amount valued at rate -100 over a positive delay: Infinity. *)
C21_Witness ==
  /\ pv # NULL
  /\ call.rate = N(-100)
  /\ call.years > 1
  /\ Less(Zero, call.futureValue)
  /\ pv = Infinity

-----------------------------------------------------------------------------
(* Properties of the App component. *)

(* C8: after any sequence of field edits and scenario loads,               *)
(* calculateContract is never invoked with years < 1, payoutDuration < 1   *)
(* or deferralAmount > totalValue.                                         *)
C8_CoreGuarded ==
  results # NULL =>
    /\ ~Less(results.of.years, One)
    /\ ~Less(results.of.payoutDuration, One)
    /\ ~Less(results.of.totalValue, results.of.deferralAmount)


(* C22: after any sequence of field edits and scenario loads, errors has a *)
(* years entry whenever formData.years < 1 and a payoutDuration entry      *)
(* whenever formData.payoutDuration < 1: editing another field does not    *)
(* remove the error of a field that is still invalid.                      *)
C22_ErrorsPersist ==
  /\ Less(formData.years, One) => "years" \in DOMAIN errors
  /\ Less(formData.payoutDuration, One) => "payoutDuration" \in DOMAIN errors

(* C23: after any sequence of field edits and scenario loads, errors has   *)
(* the deferralAmount entry, "Deferral cannot exceed Total Value", if and  *)
(* only if formData.deferralAmount > formData.totalValue.                  *)
C23_DeferralError ==
  /\ "deferralAmount" \in DOMAIN errors
       <=> Less(formData.totalValue, formData.deferralAmount)
  /\ "deferralAmount" \in DOMAIN errors =>
       errors["deferralAmount"] = "Deferral cannot exceed Total Value"

(* The deferral exceeds the total and the interest rate has been edited:   *)
(* the deferral error stands after an edit of another field.               *)
C23_Witness ==
  /\ edits >= 2
  /\ "deferralAmount" \in DOMAIN errors
  /\ Less(formData.totalValue, formData.deferralAmount)
  /\ formData.interestRate = N(5)

(* C30: no field edit that leaves errors non-empty changes results, so     *)
(* results keeps the value computed for the last formData for which errors *)
(* was empty; and whenever errors is empty after an edit or a scenario     *)
(* load, results is calculateContract(formData) for the current formData.  *)
C30_ResultsFrame ==
  [][/\ DOMAIN errors' # {} => results' = results
     /\ DOMAIN errors' = {} => results' = [of |-> formData']]_vars

(* Two edits have left an error standing: results still holds the          *)
(* calculation of an earlier formData.                                     *)
C30_Witness ==
  /\ edits >= 2
  /\ DOMAIN errors # {}
  /\ results # NULL
  /\ results.of # formData
  /\ results.of.years = formData.years
====
